---------------------------- MODULE Spec2Model ----------------------------
(***************************************************************************)
(* Model of backend/server.py: a FastAPI application with three routes     *)
(* under /api (GET /, POST+GET /status, POST /chat), a MongoDB database    *)
(* reached through the asynchronous motor client, and one outbound call    *)
(* to the Hugging Face inference API made with the synchronous `requests`  *)
(* library.                                                                *)
(*                                                                         *)
(* Every request is one asyncio task.  The code between two `await`s runs  *)
(* without interruption on the event loop, so each such stretch is one     *)
(* action.  `requests.post` (line 116) is not awaited: the task keeps the  *)
(* event loop for the whole duration of the HTTP exchange.  That stretch   *)
(* is split into ChatIssuePost / ChatPostReturns with `running` naming the *)
(* task that occupies the loop in between.  Database operations are        *)
(* executed outside the event loop (motor's executor and the server), so   *)
(* the Db* actions do not need the loop.                                    *)
(*                                                                         *)
(* A collection is a bag of documents: find() without a sort promises no   *)
(* order.  uuid.uuid4() is a draw of a value no other draw returns: the    *)
(* k-th draw of request r is the token <<"uuid", r, k>>.                    *)
(*                                                                         *)
(* Text is a sequence of tokens; an f-string is the concatenation of its   *)
(* literal pieces and the interpolated values.  Timestamps are left out:   *)
(* nothing reads them.                                                     *)
(***************************************************************************)
EXTENDS Integers, Sequences, FiniteSets, Bags, TLC

VARIABLES
    hf_api_key,      \* os.environ.get('HF_API_KEY'): None, "" or a key
    status_checks,   \* db.status_checks
    chat_messages,   \* db.chat_messages
    ai_responses,    \* db.ai_responses
    running,         \* the tasks inside requests.post, holding the event loop
    pc,              \* per request: position of its handler
    req,             \* per request: route and parsed body
    status_obj,      \* create_status_check: local status_obj
    user_message,    \* chat_with_ai: local user_message
    posted,          \* the requests received by the inference API
    response,        \* chat_with_ai: outcome of requests.post
    ai_response,     \* chat_with_ai: local ai_response
    recommendations, \* chat_with_ai: local recommendations
    ai_message,      \* chat_with_ai: local ai_message
    found,           \* get_status_checks: local status_checks
    resp,            \* per request: what the client receives
    log              \* per request: calls made to the database and the API

vars == <<hf_api_key, status_checks, chat_messages, ai_responses,
          running, pc, req, status_obj, user_message, posted, response,
          ai_response, recommendations, ai_message, found, resp, log>>

chatLocals == <<user_message, posted, response, ai_response, recommendations,
                ai_message>>

-----------------------------------------------------------------------------
(* Bounds *)

NumReq == 2

Reqs == 1..NumReq

None == [none |-> TRUE]

(* Inputs *)

Ann == [name |-> <<"Ann">>, email |-> "ann@example.com", phone |-> "555-0100"]

BobLee == [name |-> <<"Bob", "Lee">>, email |-> "bob@example.com", phone |-> "555-0101"]

ClientNames == { "web", "ios" }

Unset == "<unset>"

ApiKeys == { Unset, "", "hf_key" }

GeneratedTexts == { <<"Use", "cold", "storage">> }

(* What requests.post can do: raise, or return a response object whose     *)
(* body is or is not JSON text.  A JSON array is a sequence, a JSON object  *)
(* a record.                                                               *)
JsonValues ==
    { [type |-> "array", items |-> <<>>],
      [type |-> "object", fields |-> <<>>],
      [type |-> "object", fields |-> [error |-> "Model is currently loading"]],
      [type |-> "array", items |-> <<[error |-> "unexpected"]>>] }
    \cup { [type |-> "array",
            items |-> <<[generated_text |-> t], [generated_text |-> <<"second">>]>>] :
            t \in GeneratedTexts }

Bodies ==
    { [json |-> FALSE] } \cup { [json |-> TRUE, value |-> v] : v \in JsonValues }

PostOutcomes ==
    { [kind |-> "exception"] }
    \cup { [kind |-> "response", status_code |-> 503, body |-> [json |-> FALSE]] }
    \cup { [kind |-> "response", status_code |-> 200, body |-> b] : b \in Bodies }

-----------------------------------------------------------------------------
(* Pure parts of the handlers *)

(* mutant: a generator that returns the same value on every draw *)
Uuid4Fixed(r, k) == <<"uuid", 0, 0>>

Uuid4(r, k) == <<"uuid", r, k>>

StatusCheck(id, client_name) == [id |-> id, client_name |-> client_name]

ToListCap == 1000

Min(a, b) == IF a <= b THEN a ELSE b

ToList(coll, n) ==
    { b \in SubBag(coll) : BagCardinality(b) = Min(BagCardinality(coll), n) }

InsertOne(coll, doc) == coll (+) SetToBag({doc})

(* mutant: `hf_api_key is None` in place of `not hf_api_key` *)
CredentialMissingNoneOnly(key) == key = Unset

(* mutant: the credential check left out *)
CredentialNeverMissing(key) == FALSE

CredentialMissing(key) == key = Unset \/ key = ""

UserMessage(id, chat_data) ==
    [id |-> id, user_info |-> chat_data.user_info, message |-> chat_data.message]

Context(chat_data) ==
    <<"You are a crypto insurance AI advisor helping users reduce their insurance premiums. The user ">>
    \o chat_data.user_info.name \o <<" is asking: ">> \o chat_data.message
    \o <<" Provide helpful advice about: 1. ... 4. ... Keep responses concise and actionable. Focus on premium reduction strategies.">>

MaxNewTokens == 200

Payload(chat_data) ==
    [inputs |-> Context(chat_data),
     parameters |-> [max_new_tokens |-> MaxNewTokens, temperature |-> "0.7",
                     return_full_text |-> FALSE]]

(* mutant: the fallback text without the question echoed *)
FallbackResponseNoEcho(chat_data) ==
    <<"Hello ">> \o chat_data.user_info.name
    \o <<"! I'm here to help you reduce your crypto insurance premiums. I recommend focusing on improving your security setup.">>

FallbackResponse(chat_data) ==
    <<"Hello ">> \o chat_data.user_info.name
    \o <<"! I'm here to help you reduce your crypto insurance premiums. Based on your question about '">>
    \o chat_data.message
    \o <<"', I recommend focusing on improving your security setup. Would you like specific advice on hardware wallets, 2FA setup, or DeFi risk management?">>

FallbackRecommendations ==
    << "Use a hardware wallet (40% premium reduction)",
       "Enable 2FA on all accounts (15% reduction)",
       "Regular security audits (10% reduction)" >>

GreetingResponse(chat_data) ==
    <<"Hello ">> \o chat_data.user_info.name
    \o <<"! I'm here to help you lower your premium costs. What specific crypto security concerns do you have?">>

SuccessRecommendations ==
    << "Hardware wallet usage can reduce premiums by up to 40%",
       "Multi-factor authentication saves 15% on premiums",
       "Cold storage practices offer additional discounts",
       "Regular portfolio rebalancing towards stablecoins reduces risk" >>

AiMessage(id, user_id, text, recs) ==
    [id |-> id, user_id |-> user_id, response |-> text, recommendations |-> recs]

ChatResponse(text, recs) ==
    [status |-> 200, body |-> [response |-> text, recommendations |-> recs]]

(* mutant: a handler that drops the exception's text *)
ExceptHandlerGeneric(e) == [status |-> 500, detail |-> <<"Internal Server Error">>]

ExceptHandler(e) ==
    [status |-> 500, detail |-> <<"Error processing chat: ", e>>]

(* Python truth value of a parsed JSON value *)
Truthy(result) ==
    IF result.type = "array" THEN Len(result.items) > 0
    ELSE DOMAIN result.fields # {}

Raise(e) == [raised |-> TRUE, exc |-> e]

Value(text, recs) ==
    [raised |-> FALSE, ai_response |-> text, recommendations |-> recs]

(* mutant: an empty result treated like a failed call *)
InterpretUnified(out, chat_data) ==
    IF out.kind = "exception" THEN Raise("ConnectionError")
    ELSE IF out.status_code # 200
    THEN Value(FallbackResponse(chat_data), FallbackRecommendations)
    ELSE IF ~out.body.json THEN Raise("JSONDecodeError")
    ELSE LET result == out.body.value
         IN  IF ~Truthy(result)
             THEN Value(FallbackResponse(chat_data), FallbackRecommendations)
             ELSE IF result.type # "array" THEN Raise("KeyError: 0")
             ELSE IF "generated_text" \notin DOMAIN result.items[1]
             THEN Raise("KeyError: 'generated_text'")
             ELSE Value(result.items[1].generated_text, SuccessRecommendations)

(* Lines 116-136: from the outcome of requests.post to ai_response and      *)
(* recommendations, or to the exception that leaves the try block.          *)
Interpret(out, chat_data) ==
    IF out.kind = "exception" THEN Raise("ConnectionError")
    ELSE IF out.status_code # 200
    THEN Value(FallbackResponse(chat_data), FallbackRecommendations)
    ELSE IF ~out.body.json THEN Raise("JSONDecodeError")
    ELSE LET result == out.body.value
         IN  IF ~Truthy(result)
             THEN Value(GreetingResponse(chat_data), SuccessRecommendations)
             ELSE IF result.type # "array" THEN Raise("KeyError: 0")
             ELSE IF "generated_text" \notin DOMAIN result.items[1]
             THEN Raise("KeyError: 'generated_text'")
             ELSE Value(result.items[1].generated_text, SuccessRecommendations)

(* mutant: the reference taken from a stored message, not from the local *)
UserIdOfAnyStored(um) == (CHOOSE d \in BagToSet(chat_messages) : TRUE).id

UserIdOf(um) == um.id

(* mutant: insert_one not awaited *)
CanIssuePostUnawaited(p) == p \in {"insert_msg", "msg_ok"}

CanIssuePost(p) == p = "msg_ok"

LoopFree == running = {}

-----------------------------------------------------------------------------
Init ==
    /\ hf_api_key \in ApiKeys
    /\ status_checks = EmptyBag
    /\ chat_messages = EmptyBag
    /\ ai_responses = EmptyBag
    /\ running = {}
    /\ pc = [r \in Reqs |-> "idle"]
    /\ req = [r \in Reqs |-> None]
    /\ status_obj = [r \in Reqs |-> None]
    /\ user_message = [r \in Reqs |-> None]
    /\ posted = [r \in Reqs |-> <<>>]
    /\ response = [r \in Reqs |-> None]
    /\ ai_response = [r \in Reqs |-> None]
    /\ recommendations = [r \in Reqs |-> None]
    /\ ai_message = [r \in Reqs |-> None]
    /\ found = [r \in Reqs |-> None]
    /\ resp = [r \in Reqs |-> None]
    /\ log = [r \in Reqs |-> <<>>]

(* A request is dispatched to its handler.  Request slots are used in       *)
(* order, which loses nothing: the slots are interchangeable.              *)
CanStart(r) ==
    /\ LoopFree
    /\ pc[r] = "idle"
    /\ r > 1 => pc[r - 1] # "idle"

(* GET /api/ *)
Root(r) ==
    /\ CanStart(r)
    /\ req' = [req EXCEPT ![r] = [route |-> "GET /"]]
    /\ pc' = [pc EXCEPT ![r] = "done"]
    /\ resp' = [resp EXCEPT ![r] = [status |-> 200, body |-> [message |-> "Hello World"]]]
    /\ UNCHANGED <<hf_api_key, status_checks, chat_messages, ai_responses,
                   running, status_obj, chatLocals, found, log>>

(* POST /api/status, up to the await of insert_one *)
CreateStatusCheck(r, input) ==
    /\ CanStart(r)
    /\ req' = [req EXCEPT ![r] = [route |-> "POST /status", body |-> input]]
    /\ status_obj' = [status_obj EXCEPT
                        ![r] = StatusCheck(Uuid4(r, 1), input.client_name)]
    /\ log' = [log EXCEPT ![r] = Append(@, "status_checks.insert_one")]
    /\ pc' = [pc EXCEPT ![r] = "insert_status"]
    /\ UNCHANGED <<hf_api_key, status_checks, chat_messages, ai_responses,
                   running, chatLocals, found, resp>>

(* the database executes db.status_checks.insert_one, or fails to *)
DbInsertStatus(r, ok) ==
    /\ pc[r] = "insert_status"
    /\ IF ok
       THEN /\ status_checks' = InsertOne(status_checks, status_obj[r])
            /\ pc' = [pc EXCEPT ![r] = "status_ok"]
            /\ log' = [log EXCEPT ![r] = Append(@, "status_checks.insert_one: ok")]
       ELSE /\ UNCHANGED status_checks
            /\ pc' = [pc EXCEPT ![r] = "status_err"]
            /\ log' = [log EXCEPT ![r] = Append(@, "status_checks.insert_one: error")]
    /\ UNCHANGED <<hf_api_key, chat_messages, ai_responses, running,
                   req, status_obj, chatLocals, found,
                   resp>>

(* create_status_check resumes after the await; an exception of insert_one *)
(* is not caught by the handler and the framework answers 500              *)
CreateStatusCheckReturn(r) ==
    /\ LoopFree
    /\ pc[r] \in {"status_ok", "status_err"}
    /\ resp' = [resp EXCEPT ![r] =
                  IF pc[r] = "status_ok"
                  THEN [status |-> 200, body |-> status_obj[r]]
                  ELSE [status |-> 500, detail |-> <<"Internal Server Error">>]]
    /\ pc' = [pc EXCEPT ![r] = "done"]
    /\ UNCHANGED <<hf_api_key, status_checks, chat_messages, ai_responses,
                   running, req, status_obj, chatLocals, found, log>>

(* GET /api/status, up to the await of find().to_list(1000) *)
GetStatusChecks(r) ==
    /\ CanStart(r)
    /\ req' = [req EXCEPT ![r] = [route |-> "GET /status"]]
    /\ log' = [log EXCEPT ![r] = Append(@, "status_checks.find")]
    /\ pc' = [pc EXCEPT ![r] = "find_status"]
    /\ UNCHANGED <<hf_api_key, status_checks, chat_messages, ai_responses,
                   running, status_obj, chatLocals, found, resp>>

DbFindStatus(r, ok) ==
    /\ pc[r] = "find_status"
    /\ IF ok
       THEN /\ \E docs \in ToList(status_checks, ToListCap) :
                   found' = [found EXCEPT ![r] = docs]
            /\ pc' = [pc EXCEPT ![r] = "find_ok"]
            /\ log' = [log EXCEPT ![r] = Append(@, "status_checks.find: ok")]
       ELSE /\ UNCHANGED found
            /\ pc' = [pc EXCEPT ![r] = "find_err"]
            /\ log' = [log EXCEPT ![r] = Append(@, "status_checks.find: error")]
    /\ UNCHANGED <<hf_api_key, status_checks, chat_messages, ai_responses,
                   running, req, status_obj, chatLocals, resp>>

GetStatusChecksReturn(r) ==
    /\ LoopFree
    /\ pc[r] \in {"find_ok", "find_err"}
    /\ resp' = [resp EXCEPT ![r] =
                  IF pc[r] = "find_ok"
                  THEN [status |-> 200, body |-> found[r]]
                  ELSE [status |-> 500, detail |-> <<"Internal Server Error">>]]
    /\ pc' = [pc EXCEPT ![r] = "done"]
    /\ UNCHANGED <<hf_api_key, status_checks, chat_messages, ai_responses,
                   running, req, status_obj, chatLocals, found, log>>


(* POST /api/chat, lines 71-84: up to the await of chat_messages.insert_one *)
ChatWithAi(r, chat_data) ==
    /\ CanStart(r)
    /\ req' = [req EXCEPT ![r] = [route |-> "POST /chat", body |-> chat_data]]
    /\ IF CredentialMissing(hf_api_key)
       THEN /\ resp' = [resp EXCEPT ![r] =
                          ExceptHandler("500: Hugging Face API key not configured")]
            /\ pc' = [pc EXCEPT ![r] = "done"]
            /\ UNCHANGED <<user_message, log>>
       ELSE /\ user_message' = [user_message EXCEPT
                                  ![r] = UserMessage(Uuid4(r, 1), chat_data)]
            /\ log' = [log EXCEPT ![r] = Append(@, "chat_messages.insert_one")]
            /\ pc' = [pc EXCEPT ![r] = "insert_msg"]
            /\ UNCHANGED resp
    /\ UNCHANGED <<hf_api_key, status_checks, chat_messages, ai_responses,
                   running, status_obj, posted, response, ai_response,
                   recommendations, ai_message, found>>

(* the database executes db.chat_messages.insert_one, or fails to *)
DbInsertChatMessage(r, ok) ==
    /\ pc[r] = "insert_msg"
    /\ IF ok
       THEN /\ chat_messages' = InsertOne(chat_messages, user_message[r])
            /\ pc' = [pc EXCEPT ![r] = "msg_ok"]
            /\ log' = [log EXCEPT ![r] = Append(@, "chat_messages.insert_one: ok")]
       ELSE /\ UNCHANGED chat_messages
            /\ pc' = [pc EXCEPT ![r] = "msg_err"]
            /\ log' = [log EXCEPT ![r] = Append(@, "chat_messages.insert_one: error")]
    /\ UNCHANGED <<hf_api_key, status_checks, ai_responses, running,
                   req, status_obj, chatLocals, found, resp>>

(* line 84 raises: the except clause of lines 150-152 *)
ChatInsertFailed(r) ==
    /\ LoopFree
    /\ pc[r] = "msg_err"
    /\ resp' = [resp EXCEPT ![r] = ExceptHandler("chat_messages.insert_one failed")]
    /\ pc' = [pc EXCEPT ![r] = "done"]
    /\ UNCHANGED <<hf_api_key, status_checks, chat_messages, ai_responses,
                   running, req, status_obj, chatLocals, found, log>>

(* lines 86-116: the handler resumes, builds the prompt and enters         *)
(* requests.post, which does not give the event loop back                   *)
ChatIssuePost(r) ==
    /\ LoopFree
    /\ CanIssuePost(pc[r])
    /\ posted' = [posted EXCEPT ![r] =
                   Append(@, [authorization |-> <<"Bearer ", hf_api_key>>,
                              json |-> Payload(req[r].body)])]
    /\ log' = [log EXCEPT ![r] = Append(@, "requests.post")]
    /\ running' = {r}
    /\ pc' = [pc EXCEPT ![r] = "in_post"]
    /\ UNCHANGED <<hf_api_key, status_checks, chat_messages, ai_responses,
                   req, status_obj, user_message, response,
                   ai_response, recommendations, ai_message, found, resp>>

(* lines 116-146: requests.post returns or raises; the handler goes on to  *)
(* the await of ai_responses.insert_one, or to the except clause           *)
ChatPostReturns(r, out) ==
    /\ running = {r}
    /\ pc[r] = "in_post"
    /\ response' = [response EXCEPT ![r] = out]
    /\ running' = {}
    /\ LET res == Interpret(out, req[r].body)
       IN  IF res.raised
           THEN /\ log' = [log EXCEPT ![r] = Append(@, "requests.post: raised")]
                /\ resp' = [resp EXCEPT ![r] = ExceptHandler(res.exc)]
                /\ pc' = [pc EXCEPT ![r] = "done"]
                /\ UNCHANGED <<ai_response, recommendations, ai_message>>
           ELSE /\ ai_response' = [ai_response EXCEPT ![r] = res.ai_response]
                /\ recommendations' =
                       [recommendations EXCEPT ![r] = res.recommendations]
                /\ ai_message' = [ai_message EXCEPT ![r] =
                       AiMessage(Uuid4(r, 2), UserIdOf(user_message[r]),
                                 res.ai_response, res.recommendations)]
                /\ log' = [log EXCEPT ![r] =
                             @ \o <<"requests.post: returned", "ai_responses.insert_one">>]
                /\ pc' = [pc EXCEPT ![r] = "insert_ai"]
                /\ UNCHANGED resp
    /\ UNCHANGED <<hf_api_key, status_checks, chat_messages, ai_responses, req,
                   status_obj, user_message, posted, found>>

(* the database executes db.ai_responses.insert_one, or fails to *)
DbInsertAiResponse(r, ok) ==
    /\ pc[r] = "insert_ai"
    /\ IF ok
       THEN /\ ai_responses' = InsertOne(ai_responses, ai_message[r])
            /\ pc' = [pc EXCEPT ![r] = "ai_ok"]
            /\ log' = [log EXCEPT ![r] = Append(@, "ai_responses.insert_one: ok")]
       ELSE /\ UNCHANGED ai_responses
            /\ pc' = [pc EXCEPT ![r] = "ai_err"]
            /\ log' = [log EXCEPT ![r] = Append(@, "ai_responses.insert_one: error")]
    /\ UNCHANGED <<hf_api_key, status_checks, chat_messages, running,
                   req, status_obj, chatLocals, found, resp>>

(* lines 146-152: the handler resumes and returns, or line 146 raises *)
ChatReturn(r) ==
    /\ LoopFree
    /\ pc[r] \in {"ai_ok", "ai_err"}
    /\ resp' = [resp EXCEPT ![r] =
                  IF pc[r] = "ai_ok"
                  THEN ChatResponse(ai_response[r], recommendations[r])
                  ELSE ExceptHandler("ai_responses.insert_one failed")]
    /\ pc' = [pc EXCEPT ![r] = "done"]
    /\ UNCHANGED <<hf_api_key, status_checks, chat_messages, ai_responses,
                   running, req, status_obj, chatLocals, found, log>>

ChatInputs ==
    { [message |-> <<"help">>, user_info |-> Ann],
      [message |-> <<"lower", "premium">>, user_info |-> BobLee] }

StatusInputs == [client_name : ClientNames]

(* a step of request r's handler, on the event loop *)
HandlerStep(r) ==
    \/ Root(r)
    \/ \E input \in StatusInputs : CreateStatusCheck(r, input)
    \/ CreateStatusCheckReturn(r)
    \/ GetStatusChecks(r)
    \/ GetStatusChecksReturn(r)
    \/ \E chat_data \in ChatInputs : ChatWithAi(r, chat_data)
    \/ ChatInsertFailed(r)
    \/ ChatIssuePost(r)
    \/ \E out \in PostOutcomes : ChatPostReturns(r, out)
    \/ ChatReturn(r)

(* a database operation issued by request r completes *)
DbStep(r) ==
    \E ok \in BOOLEAN :
        \/ DbInsertStatus(r, ok)
        \/ DbFindStatus(r, ok)
        \/ DbInsertChatMessage(r, ok)
        \/ DbInsertAiResponse(r, ok)

Next == \E r \in Reqs : HandlerStep(r) \/ DbStep(r)

Spec == Init /\ [][Next]_vars

-----------------------------------------------------------------------------
(* Vocabulary of the properties *)

IsChat(r) == req[r] # None /\ req[r].route = "POST /chat"

IsStatusCreate(r) == req[r] # None /\ req[r].route = "POST /status"

Done(r) == pc[r] = "done"

Succeeded(r) == resp[r] # None /\ resp[r].status = 200

Range(f) == { f[i] : i \in DOMAIN f }

Occurrences(l, e) == Cardinality({ i \in DOMAIN l : l[i] = e })

(* in l, every e2 has an e1 before it *)
Precedes(l, e1, e2) ==
    \A j \in DOMAIN l : l[j] = e2 => \E i \in 1..(j - 1) : l[i] = e1

Contains(text, sub) ==
    \E i \in 0..(Len(text) - Len(sub)) : SubSeq(text, i + 1, i + Len(sub)) = sub

(* number of documents of a collection that are in S *)
CountIn(coll, S) ==
    BagCardinality([d \in (S \cap BagToSet(coll)) |-> CopiesIn(d, coll)])

MessageRecordsOf(r) ==
    IF user_message[r] = None THEN {}
    ELSE { d \in BagToSet(chat_messages) : d.id = user_message[r].id }

AiRecordsOf(r) ==
    IF user_message[r] = None THEN {}
    ELSE { d \in BagToSet(ai_responses) :
             \/ d.user_id = user_message[r].id
             \/ ai_message[r] # None /\ d.id = ai_message[r].id }

PostRaised(r) == response[r] # None /\ response[r].kind = "exception"

PostStatus(r) ==
    IF response[r] # None /\ response[r].kind = "response"
    THEN response[r].status_code ELSE 0 - 1

(* the body is a JSON array of objects that each have a generated_text *)
WellShaped(body) ==
    /\ body.json
    /\ body.value.type = "array"
    /\ \A i \in DOMAIN body.value.items :
          "generated_text" \in DOMAIN body.value.items[i]

MessageWriteFailed(r) == "chat_messages.insert_one: error" \in Range(log[r])

AiWriteFailed(r) == "ai_responses.insert_one: error" \in Range(log[r])

ThreeItemList ==
    << "Use a hardware wallet (40% premium reduction)",
       "Enable 2FA on all accounts (15% reduction)",
       "Regular security audits (10% reduction)" >>

FourItemList ==
    << "Hardware wallet usage can reduce premiums by up to 40%",
       "Multi-factor authentication saves 15% on premiums",
       "Cold storage practices offer additional discounts",
       "Regular portfolio rebalancing towards stablecoins reduces risk" >>

FallbackText(chat_data) ==
    <<"Hello ">> \o chat_data.user_info.name
    \o <<"! I'm here to help you reduce your crypto insurance premiums. Based on your question about '">>
    \o chat_data.message
    \o <<"', I recommend focusing on improving your security setup. Would you like specific advice on hardware wallets, 2FA setup, or DeFi risk management?">>

GreetingText(chat_data) ==
    <<"Hello ">> \o chat_data.user_info.name
    \o <<"! I'm here to help you lower your premium costs. What specific crypto security concerns do you have?">>

KeyConfigured == hf_api_key # Unset /\ hf_api_key # ""

-----------------------------------------------------------------------------
(* C1: a chat request with a configured credential whose outbound call      *)
(* raises, or whose 200 response has a body that is not an array of         *)
(* generated-text objects, still answers 200 with the static fallback text  *)
(* and the 3-item fallback list; it never ends in a server error.           *)
(* The code does not do this: only a status other than 200 takes the        *)
(* fallback branch (line 118); an exception of requests.post, of            *)
(* response.json() or of result[0]["generated_text"] reaches the except     *)
(* clause of line 150 and the request ends 500.                             *)
C1_FailureNotSurfaced ==
    \A r \in Reqs :
        ( /\ IsChat(r) /\ Done(r) /\ KeyConfigured
          /\ response[r] # None
          /\ \/ PostRaised(r)
             \/ PostStatus(r) = 200 /\ ~WellShaped(response[r].body) )
        => /\ resp[r].status = 200
           /\ resp[r].body.response = FallbackText(req[r].body)
           /\ resp[r].body.recommendations = ThreeItemList

(* C2 as stated: whenever the outbound call returned a status other than    *)
(* 200, the finished request has succeeded with the 3-item fallback list    *)
(* and a text that contains the user's name and the message.                *)
C2_Original ==
    \A r \in Reqs :
        (IsChat(r) /\ Done(r) /\ KeyConfigured /\ PostStatus(r) \notin {0 - 1, 200})
        => /\ resp[r].status = 200
           /\ resp[r].body.recommendations = ThreeItemList
           /\ Contains(resp[r].body.response, req[r].body.user_info.name)
           /\ Contains(resp[r].body.response, req[r].body.message)

(* C2 amended: whenever the outbound call returned a status other than 200  *)
(* and the write of the AIResponseRecord did not fail, the finished         *)
(* request has succeeded, its recommendations are exactly the 3-item        *)
(* fallback list in order, and its text contains the literal user name and  *)
(* the literal message.                                                     *)
C2_NonSuccessStatusFallsBack ==
    \A r \in Reqs :
        ( /\ IsChat(r) /\ Done(r) /\ KeyConfigured
          /\ PostStatus(r) \notin {0 - 1, 200}
          /\ ~AiWriteFailed(r) )
        => /\ resp[r].status = 200
           /\ resp[r].body.recommendations = ThreeItemList
           /\ Contains(resp[r].body.response, req[r].body.user_info.name)
           /\ Contains(resp[r].body.response, req[r].body.message)

C2_Witness ==
    \E r \in Reqs :
        /\ IsChat(r) /\ Done(r) /\ PostStatus(r) = 503 /\ Succeeded(r)
        /\ req[r].body.user_info.name = <<"Bob", "Lee">>

(* C3: when the outbound call returned 200 with an array body, what the     *)
(* request returns has exactly the 4-item success list, whether the array   *)
(* is empty or not; the text is the generated_text of the first element     *)
(* when there is one, and else the greeting, which contains the user's      *)
(* name and is not the failure-path fallback text.                          *)
C3_SuccessPath ==
    \A r \in Reqs :
        ( /\ IsChat(r) /\ Succeeded(r) /\ PostStatus(r) = 200
          /\ response[r].body.json /\ response[r].body.value.type = "array" )
        => LET items == response[r].body.value.items
               body == resp[r].body
           IN  /\ body.recommendations = FourItemList
               /\ items # <<>> => body.response = items[1].generated_text
               /\ items = <<>> =>
                    /\ body.response = GreetingText(req[r].body)
                    /\ Contains(body.response, req[r].body.user_info.name)
                    /\ body.response # FallbackText(req[r].body)

C3_Witness ==
    \E r, s \in Reqs :
        /\ IsChat(r) /\ Succeeded(r) /\ PostStatus(r) = 200
        /\ response[r].body.json /\ response[r].body.value = [type |-> "array", items |-> <<>>]
        /\ IsChat(s) /\ Succeeded(s) /\ PostStatus(s) = 200
        /\ response[s].body.json /\ response[s].body.value.type = "array"
        /\ Len(response[s].body.value.items) = 2

(* C4: with the credential missing or empty, every chat request ends with   *)
(* status 500 and the inference API receives no call for it, for any        *)
(* number and interleaving of requests.                                     *)
C4_MissingCredential ==
    hf_api_key \in {Unset, ""} =>
        \A r \in Reqs :
            IsChat(r) =>
                /\ Done(r) /\ resp[r].status = 500
                /\ posted[r] = <<>>
                /\ "requests.post" \notin Range(log[r])
                /\ response[r] = None

C4_Witness ==
    /\ hf_api_key = ""
    /\ \E r, s \in Reqs : r # s /\ IsChat(r) /\ IsChat(s) /\ Done(r) /\ Done(s)

(* C5: every chat request that returned success has exactly one             *)
(* ChatMessageRecord and exactly one AIResponseRecord of its own; that      *)
(* AIResponseRecord refers to the id of the same request's                  *)
(* ChatMessageRecord, to no other request's, and holds the response and     *)
(* the recommendations that were returned.                                  *)
C5_OnePairPerSuccess ==
    \A r \in Reqs :
        (IsChat(r) /\ Succeeded(r)) =>
            /\ CountIn(chat_messages, MessageRecordsOf(r)) = 1
            /\ \A m \in MessageRecordsOf(r) :
                  m.message = req[r].body.message /\ m.user_info = req[r].body.user_info
            /\ CountIn(ai_responses, AiRecordsOf(r)) = 1
            /\ \A a \in AiRecordsOf(r) :
                  /\ a.id = ai_message[r].id
                  /\ a.user_id = user_message[r].id
                  /\ a.response = resp[r].body.response
                  /\ a.recommendations = resp[r].body.recommendations
                  /\ \A s \in Reqs \ {r} :
                        user_message[s] # None => a.user_id # user_message[s].id

C5_Witness ==
    \E r, s \in Reqs :
        /\ r # s /\ IsChat(r) /\ IsChat(s) /\ Succeeded(r) /\ Succeeded(s)
        /\ req[r].body # req[s].body

(* C6 as stated: whatever the configuration and the outcome, a finished     *)
(* chat request has exactly one ChatMessageRecord, unless the write of      *)
(* that record failed.                                                      *)
C6_Original ==
    \A r \in Reqs :
        (IsChat(r) /\ Done(r)) =>
            \/ MessageWriteFailed(r)
            \/ CountIn(chat_messages, MessageRecordsOf(r)) = 1

(* C6 amended: a finished chat request made with a configured credential    *)
(* has exactly one ChatMessageRecord, whatever its later outcome, unless    *)
(* the write of that record failed; with the credential missing or empty    *)
(* the handler ends before the write and no ChatMessageRecord exists.       *)
C6_MessagePersistedWhenConfigured ==
    /\ hf_api_key \notin {Unset, ""} =>
          \A r \in Reqs :
              (IsChat(r) /\ Done(r)) =>
                  \/ MessageWriteFailed(r)
                  \/ CountIn(chat_messages, MessageRecordsOf(r)) = 1
    /\ hf_api_key \in {Unset, ""} =>
          /\ chat_messages = EmptyBag
          /\ \A r \in Reqs : "chat_messages.insert_one" \notin Range(log[r])

C6_Witness ==
    /\ hf_api_key = "hf_key"
    /\ \E r, s \in Reqs :
          /\ IsChat(r) /\ Done(r) /\ resp[r].status = 500 /\ ~MessageWriteFailed(r)
          /\ IsChat(s) /\ Done(s) /\ resp[s].status = 200

(* C7: the record a status-create request returns has the client_name of    *)
(* the request, is in the status-check collection, and has an id that no    *)
(* record returned by another status-create request has.                    *)
C7_StatusCreate ==
    \A r \in Reqs :
        (IsStatusCreate(r) /\ Succeeded(r)) =>
            /\ resp[r].body.client_name = req[r].body.client_name
            /\ CopiesIn(resp[r].body, status_checks) >= 1
            /\ \A s \in Reqs \ {r} :
                  (IsStatusCreate(s) /\ Succeeded(s)) => resp[s].body.id # resp[r].body.id

C7_Witness ==
    \E r, s \in Reqs :
        /\ r # s /\ IsStatusCreate(r) /\ IsStatusCreate(s)
        /\ Succeeded(r) /\ Succeeded(s)
        /\ req[r].body.client_name # req[s].body.client_name

(* C8: within a chat request the inbound ChatMessageRecord is written       *)
(* before the outbound call is issued, the outbound call has resolved       *)
(* before the AIResponseRecord is written, and the outbound call is made    *)
(* at most once, whatever its result.                                       *)
C8_OrderWithinRequest ==
    \A r \in Reqs :
        /\ Len(posted[r]) <= 1
        /\ Occurrences(log[r], "requests.post") = Len(posted[r])
        /\ posted[r] # <<>> =>
              /\ CountIn(chat_messages, MessageRecordsOf(r)) = 1
              /\ Precedes(log[r], "chat_messages.insert_one: ok", "requests.post")
        /\ pc[r] = "in_post" => AiRecordsOf(r) = {} /\ ai_message[r] = None
        /\ (AiRecordsOf(r) # {} \/ "ai_responses.insert_one" \in Range(log[r])) =>
              /\ response[r] # None
              /\ Len(posted[r]) = 1
              /\ Precedes(log[r], "requests.post: returned", "ai_responses.insert_one")

C8_Witness ==
    \E r, s \in Reqs :
        /\ IsChat(r) /\ Done(r) /\ AiRecordsOf(r) # {}
        /\ IsChat(s) /\ Done(s) /\ PostRaised(s)

(* C9: while a chat request is inside its outbound call, or any request     *)
(* awaits a database operation, the event loop is given up: another         *)
(* request whose handler is ready to run can take its step.                 *)
(* The code does not do this for the outbound call: requests.post           *)
(* (line 116) is a blocking call made inside an async handler, so nothing   *)
(* else runs until it returns.                                              *)
Waiting(r) ==
    pc[r] \in {"in_post", "insert_msg", "insert_ai", "insert_status", "find_status"}

Ready(s) ==
    \/ pc[s] \in {"msg_ok", "msg_err", "ai_ok", "ai_err", "status_ok", "status_err",
                  "find_ok", "find_err"}
    \/ pc[s] = "idle" /\ (s > 1 => pc[s - 1] # "idle")

C9_WaitingYields ==
    \A r, s \in Reqs :
        (r # s /\ Waiting(r) /\ Ready(s)) => ENABLED HandlerStep(s)

(* the half of C9 the code does keep: a task that awaits a database         *)
(* operation has given the event loop up                                    *)
DatabaseAwaitYields ==
    \A r, s \in Reqs :
        (r # s /\ Waiting(r) /\ pc[r] # "in_post" /\ running = {} /\ Ready(s))
        => ENABLED HandlerStep(s)

(* C10: when the write of the AIResponseRecord fails, the request ends 500  *)
(* with the exception's text in the detail, the ChatMessageRecord the       *)
(* request wrote is still in the collection as written, no                  *)
(* AIResponseRecord of the request exists, and neither the outbound call    *)
(* nor the write was made a second time.                                    *)
C10_ResponseWriteFails ==
    \A r \in Reqs :
        (IsChat(r) /\ AiWriteFailed(r)) =>
            /\ CopiesIn(UserMessage(<<"uuid", r, 1>>, req[r].body), chat_messages) = 1
            /\ CountIn(chat_messages, MessageRecordsOf(r)) = 1
            /\ AiRecordsOf(r) = {}
            /\ Len(posted[r]) = 1
            /\ Occurrences(log[r], "ai_responses.insert_one") = 1
            /\ Occurrences(log[r], "chat_messages.insert_one") = 1
            /\ Done(r) =>
                  /\ resp[r].status = 500
                  /\ resp[r].detail =
                        <<"Error processing chat: ", "ai_responses.insert_one failed">>

C10_Witness ==
    \E r \in Reqs : IsChat(r) /\ Done(r) /\ AiWriteFailed(r)

=============================================================================
